---- MODULE Spec2Model ----
(***************************************************************************)
(* Model of the ShiftAddEngine of src/main.rs: generate (the bracket       *)
(* matching compiler with its peephole rules) and execute (the VM loop),   *)
(* driven as compile_execute drives them.                                  *)
(*                                                                         *)
(* Widths.  The source uses u8 cells, i16 offsets, a tape of 1 << 16 cells *)
(* and usize pointers.  The model keeps every wrap but scales the widths:  *)
(* cells are CellBits wide, the tape has 2^TapeBits cells, an i16 covers   *)
(* exactly one tape length (as 2^16 does in the source) and a usize covers *)
(* a whole number of tape lengths (as 2^64 does).  The source's literal    *)
(* 255 is the all-ones cell value -1 and appears here as U8Max.            *)
(***************************************************************************)
EXTENDS Integers, Sequences, FiniteSets, TLC

\* ------------------------------------------------------------------ bounds
\* Longest token stream fed to generate.
MaxTokens == 6
\* Longest token stream whose Program is also executed.
MaxRunTokens == 5
\* Longest input byte sequence handed to execute.
MaxInput == 1
\* Longest output the model follows; a run that would write more is not followed further.
MaxOut == 2
\* Width of a tape cell (u8 in the source), in bits.
CellBits == 2
\* log2 of the tape length (DATA_LEN = 1 << 16 in the source) = width of i16.
TapeBits == 2
\* Longest token stream before the loop whose closing is examined on its own.
MaxPrefix == 3
\* Longest body of that loop.
MaxBody == 5

\* ------------------------------------------------------------------ widths
RECURSIVE Pow2(_)
Pow2(n) == IF n = 0 THEN 1 ELSE 2 * Pow2(n - 1)

U8Mod == Pow2(CellBits)
U8Max == U8Mod - 1
DATA_LEN == Pow2(TapeBits)
I16Mod == DATA_LEN
I16Min == 0 - (I16Mod \div 2)
I16Max == (I16Mod \div 2) - 1
UsizeMod == DATA_LEN * DATA_LEN
U16Max == 65535

U8 == 0 .. U8Max
I16 == I16Min .. I16Max
Cells == 0 .. (DATA_LEN - 1)

\* u8::wrapping_add
WrapU8(x) == x % U8Mod
\* i16::wrapping_add
WrapI16(x) == ((x - I16Min) % I16Mod) + I16Min
\* `*i as _` : an i16 cast to usize (sign extension)
AsUsize(i) == i % UsizeMod
\* usize::wrapping_add
WrappingAdd(a, b) == (a + b) % UsizeMod

\* ------------------------------------------------------------------ opcodes
BasicOpcode == {"Add", "Sub", "Open", "Close", "Right", "Left", "Dot", "Comma"}

BranchZero(t) == [op |-> "BranchZero", a |-> 0, i |-> t]
BranchNotZero(t) == [op |-> "BranchNotZero", a |-> 0, i |-> t]
AddRight(a, i) == [op |-> "AddRight", a |-> a, i |-> i]
Clear == [op |-> "Clear", a |-> 0, i |-> 0]
AddTo(i) == [op |-> "AddTo", a |-> 0, i |-> i]
SubTo(i) == [op |-> "SubTo", a |-> 0, i |-> i]
Seek(i) == [op |-> "Seek", a |-> 0, i |-> i]
Dot == [op |-> "Dot", a |-> 0, i |-> 0]
Comma == [op |-> "Comma", a |-> 0, i |-> 0]
Exit == [op |-> "Exit", a |-> 0, i |-> 0]

\* ------------------------------------------------------------------ state
VARIABLES
    toks,        \* the tokens generate has consumed so far (iter, as history)
    buffer,      \* generate's emission buffer
    open_stack,  \* generate's stack of open-loop addresses
    gen,         \* how generate stands: "running", "Ok", "ExtraClose", "ExtraOpen", "panic"
    opcodes,     \* the Program compile_execute holds once generate returned Ok
    vm,          \* execute's registers, tape, input iterator, output, and how it stands:
                 \* "idle", "running", "returned", "crashed", "clobbered", "aborted"
    start,       \* vm as it was when execute was entered (history)
    ref,         \* a reference machine, used only by the comparison specifications
    refprog      \* the reference machine's program

vars == <<toks, buffer, open_stack, gen, opcodes, vm, start, ref, refprog>>

Last(s) == s[Len(s)]
Front(s) == SubSeq(s, 1, Len(s) - 1)
Truncate(s, n) == SubSeq(s, 1, n)

ZeroTape == [c \in Cells |-> 0]
\* execute's locals at entry (pc = 0, dp = 0) over the given tape and input
Machine(data, input, run) ==
    [pc |-> 0, dp |-> 0, data |-> data, input |-> input, out |-> <<>>, run |-> run]
Idle == Machine(ZeroTape, <<>>, "idle")

\* ---------------------------------------------------------------- generate
\* BasicOpcode::Add / Sub: merge into a trailing AddRight(p, 0), else push.
PushAdd(buf, d) ==
    IF buf # <<>> /\ Last(buf).op = "AddRight" /\ Last(buf).i = 0
    THEN Append(Front(buf), AddRight(WrapU8(Last(buf).a + d), 0))
    ELSE Append(buf, AddRight(WrapU8(d), 0))

\* BasicOpcode::Right / Left: merge into any trailing AddRight(_, p), else push.
PushShift(buf, d) ==
    IF buf # <<>> /\ Last(buf).op = "AddRight"
    THEN Append(Front(buf), AddRight(Last(buf).a, WrapI16(Last(buf).i + d)))
    ELSE Append(buf, AddRight(0, WrapI16(d)))

\* The tail of the buffer has the shape [.., BranchZero(_), AddRight(a1, x), AddRight(a2, y)].
TailIsPair(buf, a1, a2) ==
    /\ Len(buf) >= 3
    /\ buf[Len(buf) - 2].op = "BranchZero"
    /\ buf[Len(buf) - 1].op = "AddRight" /\ buf[Len(buf) - 1].a = a1
    /\ buf[Len(buf)].op = "AddRight" /\ buf[Len(buf)].a = a2

\* The tail of the buffer has the shape [.., BranchZero(_), AddRight(_, _)].
TailIsSingle(buf) ==
    /\ Len(buf) >= 2
    /\ buf[Len(buf) - 1].op = "BranchZero"
    /\ buf[Len(buf)].op = "AddRight"

\* The guard `-x == y && x != 0`, with -x wrapping (overflow checks off).
NegGuard(x, y) == WrapI16(0 - x) = y /\ x # 0

\* Whether the match at LoopClose evaluates `-x` on x = i16::MIN: that panics in a
\* build with overflow checks and wraps in one without.
\* The guard is reached only when the first arm (a trailing AddRight(_, 0)) did not match.
NegOverflows(buf) ==
    /\ TailIsPair(buf, U8Max, 1) \/ TailIsPair(buf, U8Max, U8Max)
    /\ Last(buf).i # 0
    /\ buf[Len(buf) - 1].i = I16Min

\* The `match &buffer[..]` of BasicOpcode::Close, first arm that matches wins.
Fuse(buf, other) ==
    IF TailIsSingle(buf) /\ Last(buf).i = 0
    THEN Append(Truncate(buf, Len(buf) - 2), Clear)
    ELSE IF TailIsPair(buf, U8Max, 1) /\ NegGuard(buf[Len(buf) - 1].i, Last(buf).i)
    THEN Append(Truncate(buf, Len(buf) - 3), AddTo(buf[Len(buf) - 1].i))
    ELSE IF TailIsPair(buf, U8Max, U8Max) /\ NegGuard(buf[Len(buf) - 1].i, Last(buf).i)
    THEN Append(Truncate(buf, Len(buf) - 3), SubTo(buf[Len(buf) - 1].i))
    ELSE IF TailIsSingle(buf)
    THEN Append(Truncate(buf, Len(buf) - 2), Seek(Last(buf).i))
    ELSE Append(buf, BranchNotZero(other))

\* Which arm of the trailing `match &buffer[..]` (redundant code) matches.
Redundant(buf) ==
    IF Len(buf) >= 2 /\ buf[Len(buf) - 1].op = "AddRight" /\ buf[Len(buf) - 1].i = 0
       /\ Last(buf) = Clear
    THEN "AddClear"
    ELSE IF Len(buf) >= 2 /\ buf[Len(buf) - 1] = Clear /\ Last(buf).op = "AddTo"
    THEN "ClearAddTo"
    ELSE IF Len(buf) >= 1 /\ Last(buf) = AddRight(0, 0)
    THEN "Nop"
    ELSE "None"

\* The buffer after the redundant-code match.
Rewrite(buf) ==
    CASE Redundant(buf) = "AddClear" -> Append(Truncate(buf, Len(buf) - 2), Clear)
      [] Redundant(buf) = "ClearAddTo" -> Append(Truncate(buf, Len(buf) - 2), Last(buf))
      [] Redundant(buf) = "Nop" -> Front(buf)
      [] OTHER -> buf

\* Whether the redundant-code match reaches one of its panic!() lines.
RewritePanics(buf) == Redundant(buf) \in {"ClearAddTo", "Nop"}

\* One turn of generate's loop once the token's own arm produced buffer b.
Emit(tok, b, stack) ==
    /\ toks' = Append(toks, tok)
    /\ buffer' = Rewrite(b)
    /\ open_stack' = stack
    /\ gen' = IF RewritePanics(b) THEN "panic" ELSE "running"
    /\ UNCHANGED <<opcodes, vm, start, ref, refprog>>

CanRead == gen = "running" /\ Len(toks) < MaxTokens

TokAdd == CanRead /\ Emit("Add", PushAdd(buffer, 1), open_stack)
TokSub == CanRead /\ Emit("Sub", PushAdd(buffer, 0 - 1), open_stack)
TokRight == CanRead /\ Emit("Right", PushShift(buffer, 1), open_stack)
TokLeft == CanRead /\ Emit("Left", PushShift(buffer, 0 - 1), open_stack)
TokOpen ==
    CanRead /\ Emit("Open", Append(buffer, BranchZero(0)), Append(open_stack, Len(buffer)))
TokDot == CanRead /\ Emit("Dot", Append(buffer, Dot), open_stack)
TokComma == CanRead /\ Emit("Comma", Append(buffer, Comma), open_stack)

\* Mutant of TokCloseExtra: the error for an unmatched ']' carries the other message.
TokCloseExtra_WrongError ==
    /\ CanRead
    /\ open_stack = <<>>
    /\ toks' = Append(toks, "Close")
    /\ gen' = "ExtraOpen"
    /\ UNCHANGED <<buffer, open_stack, opcodes, vm, start, ref, refprog>>

\* BasicOpcode::Close with an empty stack: `ok_or(...)?` returns the error.
CloseExtraArm ==
    /\ gen = "running"
    /\ open_stack = <<>>
    /\ toks' = Append(toks, "Close")
    /\ gen' = "ExtraClose"
    /\ UNCHANGED <<buffer, open_stack, opcodes, vm, start, ref, refprog>>

TokCloseExtra == CanRead /\ CloseExtraArm

\* Mutant of Patch: the placeholder is patched to the address after `this`.
Patch_AfterThis(buf, other) == [buf EXCEPT ![other + 1] = BranchZero(Len(buf) + 1)]

\* The buffer with the placeholder at `other` patched to BranchZero(this).
Patch(buf, other) == [buf EXCEPT ![other + 1] = BranchZero(Len(buf))]

\* BasicOpcode::Close with a pending open: patch, then fuse or close the loop.
CloseArm ==
    /\ gen = "running"
    /\ open_stack # <<>>
    /\ LET other == Last(open_stack)
           patched == Patch(buffer, other)
       IN  \/ /\ Len(buffer) <= U16Max
              /\ Emit("Close", Fuse(patched, other), Front(open_stack))
           \/ /\ Len(buffer) > U16Max \/ NegOverflows(patched)
              /\ toks' = Append(toks, "Close")
              /\ buffer' = IF Len(buffer) > U16Max THEN buffer ELSE patched
              /\ open_stack' = Front(open_stack)
              /\ gen' = "panic"
              /\ UNCHANGED <<opcodes, vm, start, ref, refprog>>

TokClose == CanRead /\ CloseArm

\* Mutant of EndOfStream: the Program is returned without the closing Exit.
EndOfStream_NoExit ==
    /\ gen = "running"
    /\ buffer' = buffer
    /\ gen' = IF open_stack # <<>> THEN "ExtraOpen" ELSE "Ok"
    /\ opcodes' = IF open_stack # <<>> THEN <<>> ELSE buffer
    /\ UNCHANGED <<toks, open_stack, vm, start, ref, refprog>>

\* The iterator is exhausted: push Exit, then report the brackets.
EndOfStream ==
    /\ gen = "running"
    /\ buffer' = Append(buffer, Exit)
    /\ gen' = IF open_stack # <<>> THEN "ExtraOpen" ELSE "Ok"
    /\ opcodes' = IF open_stack # <<>> THEN <<>> ELSE Append(buffer, Exit)
    /\ UNCHANGED <<toks, open_stack, vm, start, ref, refprog>>

\* ----------------------------------------------------------------- execute
\* Bytes an out-of-bounds get_unchecked may observe (undefined behaviour: any byte).
OobBytes == {0, 1}

InBounds(st) == st.dp < DATA_LEN

\* `*data.get_unchecked(dp)`: the cell, or any byte when dp is outside the tape.
ReadCell(st) == IF InBounds(st) THEN {st.data[st.dp]} ELSE OobBytes

\* `*data.get_unchecked_mut(dp) = v`: outside the tape the write lands elsewhere.
WriteCell(st, v) == IF InBounds(st) THEN [st EXCEPT !.data[st.dp] = v] ELSE st

\* An access outside the tape may also end the process (a fault).
Faults(st) == IF InBounds(st) THEN {} ELSE {[st EXCEPT !.run = "crashed"]}

\* A write outside the tape may also change memory that is not the tape (the heap
\* around it, the Program's buffer among it); the run is not followed further.
Strays(st) == IF InBounds(st) THEN {} ELSE {[st EXCEPT !.run = "clobbered"]}

\* `pc += 1` at the foot of the loop.
Advance(st) == [st EXCEPT !.pc = st.pc + 1]

\* Opcode::AddRight(a, i)
ExecAddRight(st, a, i) ==
    { Advance([WriteCell(st, WrapU8(v + a)) EXCEPT
                  !.dp = WrappingAdd(st.dp, AsUsize(i)) % DATA_LEN]) : v \in ReadCell(st) }
    \cup Faults(st) \cup Strays(st)

\* Mutant of BranchTarget: the taken branch makes up for the loop's `pc += 1`.
BranchTarget_Compensated(t) == t - 1

\* Where a taken branch leaves pc before the loop's `pc += 1`.
BranchTarget(t) == t

\* Opcode::BranchZero(i)
ExecBranchZero(st, t) ==
    { Advance(IF v = 0 THEN [st EXCEPT !.pc = BranchTarget(t)] ELSE st) : v \in ReadCell(st) }
    \cup Faults(st)

\* Opcode::BranchNotZero(i)
ExecBranchNotZero(st, t) ==
    { Advance(IF v # 0 THEN [st EXCEPT !.pc = BranchTarget(t)] ELSE st) : v \in ReadCell(st) }
    \cup Faults(st)

\* Opcode::Dot
ExecDot(st) ==
    { Advance([st EXCEPT !.out = Append(st.out, v)]) : v \in ReadCell(st) } \cup Faults(st)

\* How execute stands after `let Some(c) = input.next() else { break }` took the break.
InputBreak == "returned"

\* Opcode::Comma
ExecComma(st) ==
    IF st.input = <<>>
    THEN {[st EXCEPT !.run = InputBreak]}
    ELSE {Advance([WriteCell(st, Head(st.input)) EXCEPT !.input = Tail(st.input)])}
         \cup Faults(st) \cup Strays(st)

\* Opcode::Clear
ExecClear(st) == {Advance(WriteCell(st, 0))} \cup Faults(st) \cup Strays(st)

\* The `to` of AddTo and SubTo.
ToCell(st, i) == WrappingAdd(st.dp, AsUsize(i)) % DATA_LEN

\* data[to] = f(data[to], tmp); data[dp] = 0, with tmp read at dp.
Transfer(st, i, sign) ==
    { Advance(WriteCell([st EXCEPT !.data[ToCell(st, i)] = WrapU8(@ + sign * tmp)], 0))
        : tmp \in ReadCell(st) }
    \cup Faults(st) \cup Strays(st)

\* Mutant of ExecAddTo: the source cell is not cleared.
ExecAddTo_SourceKept(st, i) ==
    { Advance([st EXCEPT !.data[ToCell(st, i)] = WrapU8(@ + tmp)]) : tmp \in ReadCell(st) }
    \cup Faults(st)

\* Opcode::AddTo(i)
ExecAddTo(st, i) == Transfer(st, i, 1)

\* Opcode::SubTo(i)
ExecSubTo(st, i) == Transfer(st, i, 0 - 1)

\* The pointer after one turn of Seek's while loop.
SeekNext(dp, i) == WrappingAdd(dp, AsUsize(i))

\* Opcode::Seek(i): one test of `while data[dp] != 0`, and the body when it holds.
\* pc stays on the Seek until the test fails.
ExecSeek(st, i) ==
    { IF v # 0 THEN [st EXCEPT !.dp = SeekNext(st.dp, i)] ELSE Advance(st) : v \in ReadCell(st) }
    \cup Faults(st)

\* Opcode::Exit
ExecExit(st) == {[st EXCEPT !.run = "returned"]}

\* The instruction execute fetches: opcodes.get_unchecked(pc).
Fetch(prog, st) == prog[st.pc + 1]

\* One turn of execute's loop on machine st over program prog.
Step(prog, st) ==
    LET o == Fetch(prog, st) IN
    CASE o.op = "AddRight" -> ExecAddRight(st, o.a, o.i)
      [] o.op = "BranchZero" -> ExecBranchZero(st, o.i)
      [] o.op = "BranchNotZero" -> ExecBranchNotZero(st, o.i)
      [] o.op = "Dot" -> ExecDot(st)
      [] o.op = "Comma" -> ExecComma(st)
      [] o.op = "Clear" -> ExecClear(st)
      [] o.op = "AddTo" -> ExecAddTo(st, o.i)
      [] o.op = "SubTo" -> ExecSubTo(st, o.i)
      [] o.op = "Seek" -> ExecSeek(st, o.i)
      [] o.op = "Exit" -> ExecExit(st)

\* Input byte sequences the harness may hand to execute.
RECURSIVE SeqsUpTo(_, _)
SeqsUpTo(S, n) ==
    IF n = 0 THEN {<<>>}
    ELSE SeqsUpTo(S, n - 1) \cup
         { Append(q, x) : q \in { r \in SeqsUpTo(S, n - 1) : Len(r) = n - 1 }, x \in S }
InputBytes == {0, 1, U8Max}
Inputs == SeqsUpTo(InputBytes, MaxInput)

\* Mutant of StartExecute: execute is entered although generate returned ExtraOpen.
StartExecute_IgnoresErr ==
    /\ gen \in {"Ok", "ExtraOpen"}
    /\ vm.run = "idle"
    /\ Len(toks) <= MaxRunTokens
    /\ \E input \in Inputs : vm' = Machine(ZeroTape, input, "running")
    /\ start' = vm'
    /\ UNCHANGED <<toks, buffer, open_stack, gen, opcodes, ref, refprog>>

\* compile_execute after generate returned Ok: a zeroed tape, then execute is entered.
StartExecute ==
    /\ gen = "Ok"
    /\ vm.run = "idle"
    /\ Len(toks) <= MaxRunTokens
    /\ \E input \in Inputs : vm' = Machine(ZeroTape, input, "running")
    /\ start' = vm'
    /\ UNCHANGED <<toks, buffer, open_stack, gen, opcodes, ref, refprog>>

\* compile_execute's `.unwrap()` on an Err: the process panics before any execution.
UnwrapErr ==
    /\ gen \in {"ExtraClose", "ExtraOpen"}
    /\ vm.run = "idle"
    /\ vm' = [vm EXCEPT !.run = "aborted"]
    /\ UNCHANGED <<toks, buffer, open_stack, gen, opcodes, start, ref, refprog>>

\* One turn of execute's loop on the Program. A run whose output would outgrow
\* MaxOut is not followed further.
RunStep ==
    /\ vm.run = "running"
    /\ Fetch(opcodes, vm).op = "Dot" => Len(vm.out) < MaxOut
    /\ vm' \in Step(opcodes, vm)
    /\ UNCHANGED <<toks, buffer, open_stack, gen, opcodes, start, ref, refprog>>

Execute == StartExecute \/ UnwrapErr \/ RunStep

Generate ==
    \/ TokAdd \/ TokSub \/ TokRight \/ TokLeft \/ TokOpen
    \/ TokCloseExtra \/ TokClose \/ TokDot \/ TokComma \/ EndOfStream

Init ==
    /\ toks = <<>>
    /\ buffer = <<>>
    /\ open_stack = <<>>
    /\ gen = "running"
    /\ opcodes = <<>>
    /\ vm = Idle
    /\ start = Idle
    /\ ref = Idle
    /\ refprog = <<>>

SpecGen == Init /\ [][Generate]_vars

Next == Generate \/ Execute

Spec == Init /\ [][Next]_vars

\* ------------------------------------------------- one fused instruction
\* The specification SpecOp runs one fused instruction from an arbitrary pointer and
\* tape, beside the loop it replaced: generate's buffer at LoopClose is fused for the
\* machine vm and closed with BranchNotZero (the default arm) for the machine ref.

\* Loop bodies as generate holds them when the fusing arms match.
LoopBodies ==
    { <<AddRight(U8Max, o), AddRight(1, WrapI16(0 - o))>> : o \in I16 \ {0} }
    \cup { <<AddRight(U8Max, o), AddRight(U8Max, WrapI16(0 - o))>> : o \in I16 \ {0} }
    \cup { <<AddRight(0, o)>> : o \in I16 \ {0} }

\* The buffer at LoopClose for a loop with this body, placeholder patched.
OpenLoop(body) == Patch(<<BranchZero(0)>> \o body, 0)

\* Tapes with at most two nonzero cells.
TestTape(c1, v1, c2, v2) ==
    [c \in Cells |-> IF c = c1 THEN v1 ELSE IF c = c2 THEN v2 ELSE 0]

InitOp ==
    /\ toks = <<>>
    /\ open_stack = <<>>
    /\ gen = "Ok"
    /\ \E body \in LoopBodies :
          /\ buffer = Append(Rewrite(Fuse(OpenLoop(body), 0)), Exit)
          /\ refprog = Append(Append(OpenLoop(body), BranchNotZero(0)), Exit)
    /\ opcodes = buffer
    /\ \E d \in Cells, c \in Cells, v1 \in U8, v2 \in U8 :
          vm = [Machine(TestTape(d, v1, c, v2), <<>>, "running") EXCEPT !.dp = d]
    /\ start = vm
    /\ ref = vm

\* The fused program takes one turn of execute's loop.
OpFused ==
    /\ vm.run = "running"
    /\ vm' \in Step(opcodes, vm)
    /\ UNCHANGED <<toks, buffer, open_stack, gen, opcodes, start, ref, refprog>>

\* The loop it replaced takes one turn of execute's loop.
OpRef ==
    /\ ref.run = "running"
    /\ ref' \in Step(refprog, ref)
    /\ UNCHANGED <<toks, buffer, open_stack, gen, opcodes, vm, start, refprog>>

NextOp == OpFused \/ OpRef

SpecOp == InitOp /\ [][NextOp]_vars

\* ------------------------------------------------------ one loop closing
\* The specification SpecLoop follows generate over the token streams made of a short
\* prefix, an Open, a loop body of '+', '-', '>' and '<' tokens, and the Close.

BodyTokens == {"Add", "Sub", "Right", "Left"}

\* t is the beginning of such a stream.
LoopForm(t) ==
    \/ Len(t) <= MaxPrefix
    \/ \E k \in 0 .. MaxPrefix :
          /\ k < Len(t)
          /\ t[k + 1] = "Open"
          /\ Len(t) - (k + 1) <= MaxBody + 1
          /\ \A j \in (k + 2) .. (Len(t) - 1) : t[j] \in BodyTokens
          /\ Len(t) > k + 1 =>
                \/ Last(t) \in BodyTokens /\ Len(t) - (k + 1) <= MaxBody
                \/ Last(t) = "Close"

Follows(tok) == gen = "running" /\ LoopForm(Append(toks, tok))

LoopAdd == Follows("Add") /\ Emit("Add", PushAdd(buffer, 1), open_stack)
LoopSub == Follows("Sub") /\ Emit("Sub", PushAdd(buffer, 0 - 1), open_stack)
LoopRight == Follows("Right") /\ Emit("Right", PushShift(buffer, 1), open_stack)
LoopLeft == Follows("Left") /\ Emit("Left", PushShift(buffer, 0 - 1), open_stack)
LoopOpen ==
    /\ Follows("Open")
    /\ Emit("Open", Append(buffer, BranchZero(0)), Append(open_stack, Len(buffer)))
LoopDot == Follows("Dot") /\ Emit("Dot", Append(buffer, Dot), open_stack)
LoopComma == Follows("Comma") /\ Emit("Comma", Append(buffer, Comma), open_stack)
LoopCloseExtra == Follows("Close") /\ CloseExtraArm
LoopClose == Follows("Close") /\ CloseArm

NextLoop ==
    \/ LoopAdd \/ LoopSub \/ LoopRight \/ LoopLeft \/ LoopOpen
    \/ LoopCloseExtra \/ LoopClose \/ LoopDot \/ LoopComma \/ EndOfStream

SpecLoop == Init /\ [][NextLoop]_vars

\* --------------------------------------------------- the merge-token engines
\* MergeTokenEngine and MergeTokenEngineExtra keep cell additions and pointer moves
\* as separate instructions, Add(u8) and Right(i16), and push no Exit.
Add(p) == [op |-> "Add", a |-> p, i |-> 0]
Right(x) == [op |-> "Right", a |-> 0, i |-> x]

\* The arms of both generate functions for every token but Close.
MergePush(tok, buf) ==
    LET merges(op) == buf # <<>> /\ Last(buf).op = op
    IN  CASE tok = "Add" ->
                IF merges("Add") THEN Append(Front(buf), Add(WrapU8(Last(buf).a + 1)))
                ELSE Append(buf, Add(1))
          [] tok = "Sub" ->
                IF merges("Add") THEN Append(Front(buf), Add(WrapU8(Last(buf).a - 1)))
                ELSE Append(buf, Add(U8Max))
          [] tok = "Right" ->
                IF merges("Right") THEN Append(Front(buf), Right(WrapI16(Last(buf).i + 1)))
                ELSE Append(buf, Right(1))
          [] tok = "Left" ->
                IF merges("Right") THEN Append(Front(buf), Right(WrapI16(Last(buf).i - 1)))
                ELSE Append(buf, Right(0 - 1))
          [] tok = "Open" -> Append(buf, BranchZero(0))
          [] tok = "Dot" -> Append(buf, Dot)
          [] tok = "Comma" -> Append(buf, Comma)

\* MergeTokenEngine's trailing match: a trailing Add(0) or Right(0) is popped.
MergePop(buf) ==
    IF buf # <<>> /\ Last(buf) \in {Add(0), Right(0)} THEN Front(buf) ELSE buf

\* MergeTokenEngineExtra's trailing match: also a Clear right after an AddTo is popped.
ExtraPop(buf) ==
    IF buf # <<>> /\ Last(buf) \in {Add(0), Right(0)} THEN Front(buf)
    ELSE IF Len(buf) >= 2 /\ buf[Len(buf) - 1].op = "AddTo" /\ Last(buf) = Clear THEN Front(buf)
    ELSE buf

\* The tail [.., BranchZero(_), Add(255), Right(x), Add(1), Right(y)].
ExtraTailIsTransfer(buf) ==
    /\ Len(buf) >= 5
    /\ buf[Len(buf) - 4].op = "BranchZero"
    /\ buf[Len(buf) - 3] = Add(U8Max)
    /\ buf[Len(buf) - 2].op = "Right"
    /\ buf[Len(buf) - 1] = Add(1)
    /\ buf[Len(buf)].op = "Right"

\* The tail [.., BranchZero(_), Add(255)].
ExtraTailIsClear(buf) ==
    Len(buf) >= 2 /\ buf[Len(buf) - 1].op = "BranchZero" /\ Last(buf) = Add(U8Max)

\* MergeTokenEngineExtra's `match &buffer[..]` at Close, first arm that matches wins.
\* The Seek arm pushes without truncating.
ExtraFuse(buf, other) ==
    IF ExtraTailIsClear(buf)
    THEN Append(Truncate(buf, Len(buf) - 2), Clear)
    ELSE IF ExtraTailIsTransfer(buf) /\ WrapI16(0 - buf[Len(buf) - 2].i) = Last(buf).i
    THEN Append(Truncate(buf, Len(buf) - 5), AddTo(buf[Len(buf) - 2].i))
    ELSE IF Len(buf) >= 2 /\ buf[Len(buf) - 1].op = "BranchZero" /\ Last(buf).op = "Right"
    THEN Append(buf, Seek(Last(buf).i))
    ELSE Append(buf, BranchNotZero(other))

\* The guard `-x == y` is evaluated on x = i16::MIN (it has no `x != 0`).
ExtraNegOverflows(buf) ==
    ~ExtraTailIsClear(buf) /\ ExtraTailIsTransfer(buf) /\ buf[Len(buf) - 2].i = I16Min

\* MergeTokenEngineExtra::generate, one token that is not a Close.
ExtraTok ==
    /\ CanRead
    /\ \E tok \in BasicOpcode \ {"Close"} :
          /\ toks' = Append(toks, tok)
          /\ buffer' = ExtraPop(MergePush(tok, buffer))
          /\ open_stack' = IF tok = "Open" THEN Append(open_stack, Len(buffer)) ELSE open_stack
    /\ UNCHANGED <<gen, opcodes, vm, start, ref, refprog>>

\* MergeTokenEngineExtra::generate, a Close with a loop pending.
ExtraClose ==
    /\ CanRead
    /\ open_stack # <<>>
    /\ toks' = Append(toks, "Close")
    /\ open_stack' = Front(open_stack)
    /\ LET other == Last(open_stack)
           patched == Patch(buffer, other)
       IN  \/ /\ Len(buffer) <= U16Max
              /\ buffer' = ExtraPop(ExtraFuse(patched, other))
              /\ gen' = "running"
           \/ /\ Len(buffer) > U16Max \/ ExtraNegOverflows(patched)
              /\ buffer' = IF Len(buffer) > U16Max THEN buffer ELSE patched
              /\ gen' = "panic"
    /\ UNCHANGED <<opcodes, vm, start, ref, refprog>>

\* MergeTokenEngineExtra::generate at the end of the stream: no Exit is pushed.
ExtraEnd ==
    /\ gen = "running"
    /\ gen' = IF open_stack # <<>> THEN "ExtraOpen" ELSE "Ok"
    /\ opcodes' = IF open_stack # <<>> THEN <<>> ELSE buffer
    /\ UNCHANGED <<toks, buffer, open_stack, vm, start, ref, refprog>>

\* MergeTokenEngineExtra::generate, a Close with the stack empty.
ExtraCloseErr == CanRead /\ CloseExtraArm

NextExtra == ExtraTok \/ ExtraCloseErr \/ ExtraClose \/ ExtraEnd

SpecExtra == Init /\ [][NextExtra]_vars

\* MergeTokenEngine::generate's locals after one more token of a stream; a Close with
\* the stack empty returns the error.
MergeTok(g, tok) ==
    IF g.gen # "running" THEN g
    ELSE IF tok = "Close" /\ g.open_stack = <<>> THEN [g EXCEPT !.gen = "ExtraClose"]
    ELSE IF tok = "Close" /\ Len(g.buffer) > U16Max THEN [g EXCEPT !.gen = "panic"]
    ELSE IF tok = "Close"
    THEN LET other == Last(g.open_stack)
         IN  [g EXCEPT !.buffer = MergePop(Append(Patch(g.buffer, other), BranchNotZero(other))),
                       !.open_stack = Front(g.open_stack)]
    ELSE [g EXCEPT !.buffer = MergePop(MergePush(tok, g.buffer)),
                   !.open_stack = IF tok = "Open" THEN Append(g.open_stack, Len(g.buffer))
                                  ELSE g.open_stack]

\* MergeTokenEngine::generate's loop over the token stream t.
RECURSIVE MergeLoop(_)
MergeLoop(t) ==
    IF t = <<>> THEN [buffer |-> <<>>, open_stack |-> <<>>, gen |-> "running"]
    ELSE MergeTok(MergeLoop(Front(t)), Last(t))

\* MergeTokenEngine::generate: what it returns ("Ok" with the buffer, or how it failed).
MergeGenerate(t) ==
    LET g == MergeLoop(t)
    IN  IF g.gen # "running" THEN [gen |-> g.gen, opcodes |-> <<>>]
        ELSE IF g.open_stack # <<>> THEN [gen |-> "ExtraOpen", opcodes |-> <<>>]
        ELSE [gen |-> "Ok", opcodes |-> g.buffer]

\* MergeTokenEngine::execute, one turn of its loop: the fetch and the tape accesses are
\* bounds-checked (a panic outside), the pointer move does not wrap at the tape's end,
\* and Comma unwraps the next input byte.
MergeStep(prog, st) ==
    IF st.pc >= Len(prog) THEN [st EXCEPT !.run = "returned"]
    ELSE LET o == prog[st.pc + 1]
             panic == [st EXCEPT !.run = "aborted"]
             next == [st EXCEPT !.pc = st.pc + 1]
         IN  IF o.op = "Right"
             THEN [next EXCEPT !.dp = WrappingAdd(st.dp, AsUsize(o.i))]
             ELSE IF ~InBounds(st) THEN panic
             ELSE CASE o.op = "Add" -> [next EXCEPT !.data[st.dp] = WrapU8(@ + o.a)]
                    [] o.op = "BranchZero" ->
                          IF st.data[st.dp] = 0 THEN [st EXCEPT !.pc = o.i + 1] ELSE next
                    [] o.op = "BranchNotZero" ->
                          IF st.data[st.dp] # 0 THEN [st EXCEPT !.pc = o.i + 1] ELSE next
                    [] o.op = "Dot" -> [next EXCEPT !.out = Append(st.out, st.data[st.dp])]
                    [] o.op = "Comma" ->
                          IF st.input = <<>> THEN panic
                          ELSE [next EXCEPT !.data[st.dp] = Head(st.input),
                                            !.input = Tail(st.input)]

\* The specification SpecMerge runs compile_execute::<MergeTokenEngine> on the token
\* stream and the input that compile_execute::<ShiftAddEngine> was given, once that
\* has ended.

\* compile_execute::<ShiftAddEngine> has ended on the stream toks.
ShiftEnded ==
    \/ gen = "panic"
    \/ gen \in {"ExtraClose", "ExtraOpen"} /\ vm.run = "aborted"
    \/ gen = "Ok" /\ vm.run \in {"returned", "crashed", "clobbered"}

\* MergeTokenEngine compiles the stream; on Ok a zeroed tape, then execute is entered.
MergeStart ==
    /\ ShiftEnded
    /\ ref.run = "idle"
    /\ Len(toks) <= MaxRunTokens
    /\ \E input \in Inputs :
          /\ gen = "Ok" => input = start.input
          /\ ref' = Machine(ZeroTape, input,
                            IF MergeGenerate(toks).gen = "Ok" THEN "running" ELSE "aborted")
    /\ refprog' = MergeGenerate(toks).opcodes
    /\ UNCHANGED <<toks, buffer, open_stack, gen, opcodes, vm, start>>

\* One turn of MergeTokenEngine::execute's loop.
MergeRun ==
    /\ ref.run = "running"
    /\ IF ref.pc < Len(refprog) /\ Len(ref.out) >= MaxOut
       THEN refprog[ref.pc + 1].op # "Dot"
       ELSE TRUE
    /\ ref' = MergeStep(refprog, ref)
    /\ UNCHANGED <<toks, buffer, open_stack, gen, opcodes, vm, start, refprog>>

NextMerge == Generate \/ Execute \/ MergeStart \/ MergeRun

SpecMerge == Init /\ [][NextMerge]_vars

\* -------------------------------------------------- the naive reference VM
\* The specification SpecNaive lets a structural-loop interpreter of the token stream
\* run, from a zeroed tape and the same input, once the compiled Program has returned.

\* The matching Close of the Open before position p (1-based), d loops deeper.
RECURSIVE FindClose(_, _, _)
FindClose(t, p, d) ==
    IF t[p] = "Close" THEN (IF d = 0 THEN p ELSE FindClose(t, p + 1, d - 1))
    ELSE IF t[p] = "Open" THEN FindClose(t, p + 1, d + 1)
    ELSE FindClose(t, p + 1, d)

\* The matching Open of the Close after position p (1-based), d loops deeper.
RECURSIVE FindOpen(_, _, _)
FindOpen(t, p, d) ==
    IF t[p] = "Open" THEN (IF d = 0 THEN p ELSE FindOpen(t, p - 1, d - 1))
    ELSE IF t[p] = "Close" THEN FindOpen(t, p - 1, d + 1)
    ELSE FindOpen(t, p - 1, d)

\* One token interpreted directly; pc counts tokens from 0.
NaiveStep(t, st) ==
    IF st.pc >= Len(t) THEN [st EXCEPT !.run = "halted"]
    ELSE LET tok == t[st.pc + 1]
             cell == st.data[st.dp]
             next == [st EXCEPT !.pc = st.pc + 1]
         IN CASE tok = "Add" -> [next EXCEPT !.data[st.dp] = (cell + 1) % U8Mod]
              [] tok = "Sub" -> [next EXCEPT !.data[st.dp] = (cell - 1) % U8Mod]
              [] tok = "Right" -> [next EXCEPT !.dp = (st.dp + 1) % DATA_LEN]
              [] tok = "Left" -> [next EXCEPT !.dp = (st.dp - 1) % DATA_LEN]
              [] tok = "Open" ->
                    IF cell = 0 THEN [st EXCEPT !.pc = FindClose(t, st.pc + 2, 0)] ELSE next
              [] tok = "Close" ->
                    IF cell # 0 THEN [st EXCEPT !.pc = FindOpen(t, st.pc, 0)] ELSE next
              [] tok = "Dot" -> [next EXCEPT !.out = Append(st.out, cell)]
              [] tok = "Comma" ->
                    IF st.input = <<>> THEN [st EXCEPT !.run = "aborted"]
                    ELSE [next EXCEPT !.data[st.dp] = Head(st.input), !.input = Tail(st.input)]

NaiveStart ==
    /\ vm.run = "returned"
    /\ ref.run = "idle"
    /\ ref' = Machine(ZeroTape, start.input, "running")
    /\ refprog' = toks
    /\ UNCHANGED <<toks, buffer, open_stack, gen, opcodes, vm, start>>

NaiveRun ==
    /\ ref.run = "running"
    /\ IF ref.pc < Len(refprog) /\ Len(ref.out) >= MaxOut
       THEN refprog[ref.pc + 1] # "Dot"
       ELSE TRUE
    /\ ref' = NaiveStep(refprog, ref)
    /\ UNCHANGED <<toks, buffer, open_stack, gen, opcodes, vm, start, refprog>>

NextNaive == Generate \/ Execute \/ NaiveStart \/ NaiveRun

SpecNaive == Init /\ [][NextNaive]_vars

\* ================================================================= claims

Count(s, x) == Cardinality({ k \in 1 .. Len(s) : s[k] = x })
Opens(s) == Count(s, "Open")
Closes(s) == Count(s, "Close")

\* ---- C1
\* The loop idioms as the fusion table words them, over the coalesced loop body:
\* AddCell and MoveCursor instructions merged and cancelled token by token.
SpecEmit(b, tok) ==
    LET kind == IF tok \in {"Add", "Sub"} THEN "AddCell"
                ELSE IF tok \in {"Right", "Left"} THEN "MoveCursor" ELSE tok
        d == IF tok \in {"Add", "Right"} THEN 1 ELSE 0 - 1
        wrap(x) == IF kind = "AddCell" THEN WrapU8(x) ELSE WrapI16(x)
    IN  IF kind \notin {"AddCell", "MoveCursor"} THEN Append(b, [k |-> kind, n |-> 0])
        ELSE IF b # <<>> /\ Last(b).k = kind
        THEN (IF wrap(Last(b).n + d) = 0 THEN Front(b)
              ELSE Append(Front(b), [k |-> kind, n |-> wrap(Last(b).n + d)]))
        ELSE Append(b, [k |-> kind, n |-> wrap(d)])

RECURSIVE SpecCoalesce(_)
SpecCoalesce(s) == IF s = <<>> THEN <<>> ELSE SpecEmit(SpecCoalesce(Front(s)), Last(s))

IsIdiom(c) ==
    \/ c = <<[k |-> "AddCell", n |-> U8Max]>>
    \/ Len(c) = 1 /\ c[1].k = "MoveCursor"
    \/ /\ Len(c) = 4
       /\ c[1] = [k |-> "AddCell", n |-> U8Max]
       /\ c[2].k = "MoveCursor"
       /\ c[3] \in {[k |-> "AddCell", n |-> 1], [k |-> "AddCell", n |-> U8Max]}
       /\ c[4] = [k |-> "MoveCursor", n |-> WrapI16(0 - c[2].n)]

\* No innermost loop of the token stream matches idioms 1-4.
NoIdiomLoop(t) ==
    \A i \in 1 .. Len(t), j \in 1 .. Len(t) :
        (/\ i < j /\ t[i] = "Open" /\ t[j] = "Close"
         /\ \A k \in (i + 1) .. (j - 1) : t[k] \notin {"Open", "Close"})
        => ~IsIdiom(SpecCoalesce(SubSeq(t, i + 1, j - 1)))

\* C1: for a balanced token stream none of whose loops matches idioms 1-4, the
\* Program generate produced, run by execute from a zeroed tape, ends with the same
\* output and the same tape as the naive structural-loop interpreter of the tokens.
C1_FusedMatchesNaive ==
    (gen = "Ok" /\ NoIdiomLoop(toks) /\ vm.run = "returned" /\ ref.run = "halted")
        => (vm.out = ref.out /\ vm.data = ref.data)

\* ---- C2
\* C2: generate ends only by returning a Program or an unbalanced-brackets error; it
\* never ends in any other way (a panic), whatever the coalescing leaves behind.
C2_GenerateReturns == gen \in {"running", "Ok", "ExtraClose", "ExtraOpen"}

\* ---- C3
\* C3: generate fails with ExtraClose exactly when a Close is consumed while the
\* open-loop stack is empty (the consumed prefix then has more ']' than '['), it
\* fails with ExtraOpen exactly when the stream ends with the stack non-empty, the
\* stack's depth being the excess of '[' over ']', and a failure returns no Program.
C3_UnbalancedBrackets ==
    /\ gen = "running" => Len(open_stack) = Opens(toks) - Closes(toks)
    /\ gen = "ExtraClose" <=>
          (toks # <<>> /\ Last(toks) = "Close" /\ Closes(toks) > Opens(toks))
    /\ gen \in {"Ok", "ExtraOpen"} =>
          /\ Last(buffer) = Exit
          /\ gen = "ExtraOpen" <=> open_stack # <<>>
          /\ gen = "ExtraOpen" <=> Opens(toks) > Closes(toks)
    /\ gen \in {"ExtraClose", "ExtraOpen"} => opcodes = <<>>

\* Both errors have been met after a loop was opened: "[]]" and "[[]".
C3_Witness ==
    /\ Len(toks) >= 3
    /\ Opens(toks) >= 1
    /\ Closes(toks) >= 1
    /\ gen \in {"ExtraClose", "ExtraOpen"}

\* ---- C4
\* C4: when Comma executes with the input exhausted, the run ends at once in a fatal
\* outcome that is not the normal return of execute, and nothing else changes.
C4_InputExhaustedIsFatal ==
    [][(vm.run = "running" /\ Fetch(opcodes, vm).op = "Comma" /\ vm.input = <<>>)
          => (vm'.run \notin {"running", "returned"}
              /\ vm'.data = vm.data /\ vm'.out = vm.out)]_vars

\* ---- C5
\* C5: in every reachable state of execute the data pointer is inside the tape.
C5_PointerInTape == vm.dp \in Cells

\* ---- C6
Under(op) == opcodes # <<>> /\ opcodes[1].op = op
Offset == opcodes[1].i
\* The target cell of the transfer from the starting pointer.
Target == (start.dp + Offset) % DATA_LEN
\* The tape after the source cell was moved onto the target with the given sign.
Moved(sign) ==
    [c \in Cells |->
        IF c = start.dp THEN 0
        ELSE IF c = Target THEN (start.data[c] + sign * start.data[start.dp]) % U8Mod
        ELSE start.data[c]]

\* C6: AddTo(o) (SubTo(o)) never faults and, once it has run, leaves data[dp + o mod
\* tape length] increased (decreased) by data[dp] modulo the cell width, data[dp] = 0,
\* dp and the output unchanged; and the loop it replaced, once it has ended, has left
\* the same tape, pointer and output.
C6_TransferMatchesLoop ==
    (Under("AddTo") \/ Under("SubTo")) =>
        /\ vm.run # "crashed"
        /\ Target # start.dp
        /\ vm.run = "returned" =>
              /\ vm.data = Moved(IF Under("AddTo") THEN 1 ELSE 0 - 1)
              /\ vm.dp = start.dp
              /\ vm.out = <<>>
              /\ ref.run = "returned" =>
                    (ref.data = vm.data /\ ref.dp = vm.dp /\ ref.out = vm.out)
        /\ ref.run # "crashed"

\* SubTo has run from a nonzero source onto a smaller target (the target wraps below
\* zero), from a pointer whose target lies across the end of the tape, and the loop
\* has ended too.
C6_Witness ==
    /\ Under("SubTo")
    /\ vm.run = "returned"
    /\ ref.run = "returned"
    /\ start.data[start.dp] > start.data[Target]
    /\ start.data[Target] > 0
    /\ start.dp + Offset \notin Cells

\* ---- C7
\* The first zero cell met from dp stepping by o modulo the tape length (-1: none).
RECURSIVE FirstZero(_, _, _, _)
FirstZero(data, dp, o, fuel) ==
    IF data[dp] = 0 THEN dp
    ELSE IF fuel = 0 THEN 0 - 1
    ELSE FirstZero(data, (dp + o) % DATA_LEN, o, fuel - 1)

\* C7: once Seek(o) has run, dp is the first zero cell met from the starting pointer
\* stepping by o modulo the tape length (the starting pointer itself when its cell is
\* 0), and no tape cell has changed.
C7_SeekStopsAtFirstZero ==
    (Under("Seek") /\ vm.run = "returned") =>
        /\ vm.dp = FirstZero(start.data, start.dp, Offset, DATA_LEN)
        /\ vm.data = start.data

\* ---- C8
\* C8: Seek(o) ends only as the loop it replaced would: it never aborts, and it
\* completes only if some cell among dp, dp+o, dp+2o, ... (mod tape length) is zero.
C8_SeekEndsAsLoop ==
    (Under("Seek") /\ vm.run \in {"returned", "crashed"}) =>
        /\ vm.run = "returned"
        /\ FirstZero(start.data, start.dp, Offset, DATA_LEN) \in Cells

\* ---- C9, C10
\* A step of generate that consumes a Close with a loop pending, without panicking.
ClosesLoop ==
    /\ gen = "running" /\ gen' = "running"
    /\ open_stack # <<>>
    /\ toks' = Append(toks, "Close")
\* The body of the loop being closed, and its placeholder's address.
Other == Last(open_stack)
Body == SubSeq(buffer, Other + 2, Len(buffer))

\* C9: at LoopClose the loop becomes a single Clear exactly when its body is the one
\* instruction AddCell(-1) without pointer movement; a body that is a single AddCell of
\* another delta stays a BranchZero/BranchNotZero pair.
C9_ClearOnlyForDecrement ==
    [][ClosesLoop =>
          /\ (Last(buffer') = Clear /\ Len(buffer') <= Other + 1)
                <=> Body = <<AddRight(U8Max, 0)>>
          /\ (Len(Body) = 1 /\ Body[1].op = "AddRight" /\ Body[1].i = 0
                /\ Body[1].a # U8Max)
                => buffer' = Append(Patch(buffer, Other), BranchNotZero(Other))]_vars

\* C10: at LoopClose the loop becomes a single Seek(x) exactly when its body is the
\* pure pointer move MoveCursor(x), x # 0; the Seek then stands in place of the whole
\* loop, placeholder included.
C10_SeekOnlyForPureMove ==
    [][ClosesLoop =>
          /\ Last(buffer').op = "Seek"
                <=> (Len(Body) = 1 /\ Body[1].op = "AddRight" /\ Body[1].a = 0
                     /\ Body[1].i # 0)
          /\ Last(buffer').op = "Seek"
                => buffer' = Append(Truncate(buffer, Other), Seek(Body[1].i))]_vars

\* ---- C11
\* A step of generate that consumes a Close with a loop pending, however it ends.
ClosesPending ==
    /\ gen = "running"
    /\ open_stack # <<>>
    /\ toks' = Append(toks, "Close")

\* The loop body is AddCell(-1), MoveCursor(x), AddCell(d), MoveCursor(-x) with x # 0.
TransferBody(d) ==
    /\ Len(Body) = 2
    /\ Body[1].op = "AddRight" /\ Body[1].a = U8Max /\ Body[1].i # 0
    /\ Body[2] = AddRight(d, WrapI16(0 - Body[1].i))

\* C11: closing a loop whose body is AddCell(-1), MoveCursor(x), AddCell(+1),
\* MoveCursor(-x), x # 0, leaves generate running with the placeholder and the body
\* replaced by the single AddTo(x); with AddCell(-1) as the third instruction, by the
\* single SubTo(x).
C11_TransferLoopFuses ==
    [][ClosesPending =>
          /\ TransferBody(1) =>
                (gen' = "running" /\ buffer' = Append(Truncate(buffer, Other), AddTo(Body[1].i)))
          /\ TransferBody(U8Max) =>
                (gen' = "running" /\ buffer' = Append(Truncate(buffer, Other), SubTo(Body[1].i)))]_vars

\* ---- C12
\* The buffer as the arm of the token generate consumes in this step leaves it, for a
\* '+', '-', '>' or '<' token.
Touched ==
    CASE Last(toks') = "Add" -> PushAdd(buffer, 1)
      [] Last(toks') = "Sub" -> PushAdd(buffer, 0 - 1)
      [] Last(toks') = "Right" -> PushShift(buffer, 1)
      [] Last(toks') = "Left" -> PushShift(buffer, 0 - 1)

\* A step of generate whose coalescing leaves the touched instruction a no-op.
Cancels ==
    /\ gen = "running"
    /\ Len(toks') = Len(toks) + 1
    /\ Last(toks') \in BodyTokens
    /\ Last(Touched) = AddRight(0, 0)

\* C12: when coalescing leaves the touched instruction with delta 0 and offset 0, the
\* instruction is removed from the buffer and generate goes on; and a stream of '+'
\* and '-' tokens that has cancelled out ends in the empty Program.
C12_CancellationContinues ==
    [][/\ Cancels => (gen' = "running" /\ buffer' = Front(Touched))
       /\ (gen = "running" /\ gen' = "Ok" /\ toks # <<>>
             /\ \A k \in 1 .. Len(toks) : toks[k] \in {"Add", "Sub"}
             /\ (Count(toks, "Add") - Count(toks, "Sub")) % U8Mod = 0)
          => opcodes' = <<Exit>>]_vars

\* ---- C13
\* The token stream is '>' repeated exactly tape-length times.
FullTurn == Len(toks) = DATA_LEN /\ \A k \in 1 .. Len(toks) : toks[k] = "Right"

\* C13: '>' repeated exactly tape-length times compiles (generate does not fail on it)
\* and, executed from dp = 0, returns with dp = 0 and the tape unchanged.
C13_FullTurnReturnsHome ==
    FullTurn =>
        /\ gen \in {"running", "Ok"}
        /\ vm.run \in {"idle", "running", "returned"}
        /\ vm.run = "returned" => (vm.dp = 0 /\ vm.data = start.data)

\* ---- C14
\* The instruction of prog at address a (addresses count from 0).
At(prog, a) == prog[a + 1]
Addresses(prog) == 0 .. (Len(prog) - 1)

\* Every BranchZero of prog carries the address `shift` past a BranchNotZero that
\* carries the BranchZero's own address, and every BranchNotZero carries the address
\* of a BranchZero that carries the address `shift` past the BranchNotZero.
Linked(prog, shift) ==
    \A a \in Addresses(prog) :
        /\ At(prog, a).op = "BranchZero" =>
              LET b == At(prog, a).i - shift
              IN  b \in Addresses(prog) /\ b > a /\ At(prog, b) = BranchNotZero(a)
        /\ At(prog, a).op = "BranchNotZero" =>
              LET b == At(prog, a).i
              IN  b \in Addresses(prog) /\ b < a /\ At(prog, b) = BranchZero(a + shift)

\* The branch at address a of the buffer has its target resolved.
Resolved(a) ==
    \/ At(buffer, a).op = "BranchNotZero"
    \/ At(buffer, a).op = "BranchZero" /\ \A k \in 1 .. Len(open_stack) : open_stack[k] # a

\* C14 as stated: in every returned Program each BranchZero carries the address of the
\* instruction following its matching BranchNotZero, and each BranchNotZero the
\* address of its matching BranchZero.
C14_BranchZeroTargetsAfterClose == gen = "Ok" => Linked(opcodes, 1)

\* C14 as amended: in every returned Program each BranchZero carries the address of
\* its matching BranchNotZero itself, and each BranchNotZero the address of its
\* matching BranchZero; and no step of generate that goes on moves, changes or drops
\* a branch whose target is resolved.
C14_TargetsAreMatchingAddresses ==
    [][/\ gen' = "Ok" => Linked(opcodes', 0)
       /\ (gen = "running" /\ gen' \in {"running", "Ok", "ExtraOpen"}) =>
             \A a \in Addresses(buffer) :
                 Resolved(a) => (a \in Addresses(buffer') /\ At(buffer', a) = At(buffer, a))]_vars

\* A Program with a loop nested in a loop was returned.
C14_Witness ==
    /\ gen = "Ok"
    /\ \E a \in Addresses(opcodes), b \in Addresses(opcodes) :
          /\ a < b
          /\ At(opcodes, a).op = "BranchZero"
          /\ At(opcodes, b).op = "BranchZero"
          /\ At(opcodes, a).i > At(opcodes, b).i

\* ---- C15
\* C15: execute has taken no step while generate is still consuming tokens; once it
\* has been entered generate had returned the whole Program; and when generate failed
\* execute is never entered: no instruction runs and no output byte is written.
C15_CompileBeforeExecute ==
    /\ gen = "running" => vm = Idle
    /\ vm.run \in {"running", "returned", "crashed"} =>
          (gen = "Ok" /\ opcodes = buffer /\ Last(opcodes) = Exit)
    /\ gen # "Ok" =>
          (vm.run \in {"idle", "aborted"} /\ vm.pc = 0 /\ vm.out = <<>> /\ vm.data = ZeroTape)

\* generate failed on a stream that holds an output instruction, and compile_execute
\* has aborted on the error.
C15_Witness ==
    /\ gen \in {"ExtraClose", "ExtraOpen"}
    /\ vm.run = "aborted"
    /\ \E k \in 1 .. Len(buffer) : buffer[k] = Dot

\* ---- C17
\* execute runs one instruction with the pointer inside the tape and goes on.
Runs == vm.run = "running" /\ vm'.run = "running" /\ vm' # vm /\ InBounds(vm)
Fetched == Fetch(opcodes, vm)
\* The fetched instruction is a branch and it is taken.
Taken ==
    \/ Fetched.op = "BranchZero" /\ vm.data[vm.dp] = 0
    \/ Fetched.op = "BranchNotZero" /\ vm.data[vm.dp] # 0
\* The fetched instruction is a Seek whose while loop turns once more.
SeekTurns == Fetched.op = "Seek" /\ vm.data[vm.dp] # 0

\* C17 as stated: after a taken branch the next instruction fetched is the one at the
\* branch's target t; after every other instruction it is the one at pc + 1.
C17_TakenBranchFetchesTarget ==
    [][Runs => IF Taken THEN vm'.pc = Fetched.i
               ELSE (SeekTurns \/ vm'.pc = vm.pc + 1)]_vars

\* C17 as amended: after a taken branch the next instruction fetched is the one at
\* t + 1, the increment being applied on top of the target; after every other
\* instruction it is the one at pc + 1.
C17_TakenBranchFetchesAfterTarget ==
    [][Runs => IF Taken THEN vm'.pc = Fetched.i + 1
               ELSE (SeekTurns \/ vm'.pc = vm.pc + 1)]_vars

\* "+[.]" has written its first byte and its BranchNotZero was taken: execute is back
\* at the loop body.
C17_Witness ==
    /\ opcodes = <<AddRight(1, 0), BranchZero(3), Dot, BranchNotZero(1), Exit>>
    /\ vm.run = "running"
    /\ vm.pc = 2
    /\ vm.out = <<1>>

\* ---- C18
\* The token stream is a run of '+' and '-' only; Net is its sum modulo the cell width.
AddRun == toks # <<>> /\ \A k \in 1 .. Len(toks) : toks[k] \in {"Add", "Sub"}
Net == (Count(toks, "Add") - Count(toks, "Sub")) % U8Mod

\* The buffer a run of net delta d may leave: the one merged instruction, which the
\* cancellation rule removes when d = 0.
MergedRun(d) == IF d = 0 THEN {<<>>, <<AddRight(0, 0)>>} ELSE {<<AddRight(d, 0)>>}

\* C18: generate goes on over a run of n '+' and m '-' tokens with nothing between
\* them and merges it into the one instruction AddCell((n - m) mod 256); executed from
\* a zeroed tape the run leaves cell 0 equal to (n - m) mod 256, every other cell 0,
\* and writes no output.
C18_AddRunIsOneInstruction ==
    AddRun =>
        /\ gen \in {"running", "Ok"}
        /\ gen = "running" => buffer \in MergedRun(Net)
        /\ gen = "Ok" => opcodes \in { Append(b, Exit) : b \in MergedRun(Net) }
        /\ vm.run \in {"idle", "running", "returned"}
        /\ vm.run = "returned" => (vm.data = [ZeroTape EXCEPT ![0] = Net] /\ vm.out = <<>>)

\* ---- C19
\* execute takes one turn of its loop (the last one included).
Turns == vm.run = "running" /\ vm' # vm
\* The tape cells the fetched instruction names.
Names ==
    CASE Fetched.op \in {"AddRight", "Comma", "Clear"} -> {vm.dp}
      [] Fetched.op \in {"AddTo", "SubTo"} -> {vm.dp, (vm.dp + Fetched.i) % DATA_LEN}
      [] OTHER -> {}

\* C19: a step of execute changes neither the Program nor any memory but the tape
\* cells its instruction names: tape[dp] for a cell addition, Input and Clear, tape[dp]
\* and tape[dp + o mod tape length] for AddTo and SubTo, none for the others.
C19_StepChangesOnlyNamedCells ==
    [][Turns =>
          /\ opcodes' = opcodes
          /\ vm'.run # "clobbered"
          /\ \A c \in Cells : vm'.data[c] # vm.data[c] => c \in Names]_vars

\* ---- C20
\* C20: every returned Program ends with Exit, every branch target t in it satisfies
\* t + 1 <= address of that Exit, and every instruction execute fetches lies inside
\* the Program.
C20_FetchInsideProgram ==
    /\ gen = "Ok" =>
          /\ opcodes # <<>>
          /\ Last(opcodes) = Exit
          /\ \A a \in Addresses(opcodes) :
                At(opcodes, a).op \in {"BranchZero", "BranchNotZero"}
                   => At(opcodes, a).i + 1 <= Len(opcodes) - 1
    /\ vm.run = "running" => vm.pc \in Addresses(opcodes)

\* A taken BranchZero whose loop closes the token stream has landed on the Exit.
C20_Witness ==
    /\ vm.run = "running"
    /\ vm.pc = Len(opcodes) - 1
    /\ vm.pc >= 2
    /\ At(opcodes, vm.pc - 1).op = "BranchNotZero"
    /\ At(opcodes, At(opcodes, vm.pc - 1).i) = BranchZero(vm.pc - 1)
    /\ vm.data[vm.dp] = 0
    /\ vm.out = <<>>

\* ---- C21
\* a is on the open-loop stack.
OnStack(a) == \E k \in 1 .. Len(open_stack) : open_stack[k] = a

\* C21: after every token generate has processed, the open-loop stack is strictly
\* increasing, each entry lies inside the buffer and indexes a placeholder
\* BranchZero(0), every BranchZero of the buffer that is not on the stack carries the
\* address of a later BranchNotZero that carries its own, and a BranchZero that a
\* fusion pattern can match at the buffer's tail is the top of the stack.
C21_OpenStackInvariant ==
    gen = "running" =>
        /\ \A k \in 1 .. (Len(open_stack) - 1) : open_stack[k] < open_stack[k + 1]
        /\ \A k \in 1 .. Len(open_stack) :
              open_stack[k] \in Addresses(buffer) /\ At(buffer, open_stack[k]) = BranchZero(0)
        /\ \A a \in Addresses(buffer) :
              (At(buffer, a).op = "BranchZero" /\ ~OnStack(a)) =>
                 LET b == At(buffer, a).i
                 IN  b \in Addresses(buffer) /\ b > a /\ At(buffer, b) = BranchNotZero(a)
        /\ \A a \in Addresses(buffer) :
              (At(buffer, a).op = "BranchZero" /\ a >= Len(buffer) - 3
                 /\ \A b \in (a + 1) .. (Len(buffer) - 1) :
                       At(buffer, b).op \notin {"BranchZero", "BranchNotZero"})
              => (open_stack # <<>> /\ Last(open_stack) = a)

\* ---- C22
\* How compile_execute::<ShiftAddEngine> ended.
ShiftEnding == IF gen = "Ok" /\ vm.run = "returned" THEN "halt" ELSE "abort"
\* How compile_execute::<MergeTokenEngine> ended.
MergeEnding == IF ref.run = "returned" THEN "halt" ELSE "abort"

\* C22: on a bracket-balanced token stream and the same input, once both
\* ShiftAddEngine and MergeTokenEngine have ended they have ended the same way, with
\* the same output and the same tape.
C22_EnginesInterchangeable ==
    (Opens(toks) = Closes(toks) /\ gen \notin {"ExtraClose", "ExtraOpen"}
       /\ ShiftEnded /\ ref.run \in {"returned", "aborted"})
    => /\ ShiftEnding = MergeEnding
       /\ vm.out = ref.out
       /\ vm.data = ref.data
====
